---- MODULE Spec2Model ----
(***************************************************************************)
(* Growmarkt (src/app.py): a Streamlit script that is re-executed from top *)
(* to bottom on every widget event.  The model keeps                        *)
(*   - the widget values that survive a rerun (the five sidebar keys and   *)
(*     the text inputs of the main page),                                   *)
(*   - st.session_state ('market_stats', 'buyers_list'),                    *)
(*   - what one rerun computes and renders (its locals, the external calls *)
(*     it issues, the elements it shows).                                   *)
(* The script is single threaded and blocks on every network call.  A      *)
(* rerun is one action, except the per-company Hunter loop of Phase 2,     *)
(* which advances one iteration per action while pc = "hunter": each       *)
(* iteration waits for requests.get, which is called without a timeout.    *)
(* No other action is enabled until the loop has finished.                  *)
(* The interface language is fixed to English and product_name to its      *)
(* default.                                                                  *)
(***************************************************************************)
EXTENDS Integers, Sequences, FiniteSets, TLC

VARIABLES
    GEMINI_KEY, COMTRADE_KEY, GOOGLE_KEY, GOOGLE_CX, HUNTER_KEY,
    hs_code, target_country, country_name,
    market_stats, buyers_list,
    run_btn, report_btn, pc,
    calls, shown,
    df, val, qty, unit_price,
    res, found_domains, final_data, h_res

keys == <<GEMINI_KEY, COMTRADE_KEY, GOOGLE_KEY, GOOGLE_CX, HUNTER_KEY>>
inputs == <<hs_code, target_country, country_name>>
session_state == <<market_stats, buyers_list>>
locals == <<df, val, qty, unit_price, res, found_domains, final_data, h_res>>
vars == <<keys, inputs, session_state, run_btn, report_btn, pc, calls, shown, locals>>

----------------------------------------------------------------------------
(* Bounds of the model. *)

\* Largest number of items a search response carries.
MaxItems == 6
\* Largest primaryValue / netWgt of one row.
MaxVal == 2

----------------------------------------------------------------------------
(* Python values. *)

\* Python's None, where the code stores it in a variable that otherwise holds a string.
None == "<None>"
\* A local the rerun has not assigned.
Unbound == "<unbound>"
Unset == [kind |-> "unset"]

\* Truth value of a str-or-None, as `if x` / `not x` tests it.
Truthy(s) == s # None /\ s # ""

t == [error_api    |-> "CRITICAL: Please enter ALL API keys in the sidebar!",
      warn_mirror  |-> "Direct Data unavailable. Switching to 'Mirror Data' logic.",
      success_data |-> "Market Data Retrieved Successfully",
      ai_instruction |-> "English"]

product_name == "Hazelnuts"
DefaultHs == "0802"
DefaultCountry == "276"
DefaultCountryName == "Germany"

\* The `num` the search request asks for.
NumRequested == 5

----------------------------------------------------------------------------
(* Phase 1: Market Data (lines 104-136). *)

RECURSIVE GCD(_, _)
GCD(a, b) == IF b = 0 THEN a ELSE GCD(b, a % b)

\* The float 0 of the else-branch of line 120.
Zero == [num |-> 0, den |-> 1]

\* v / q on the numpy scalars that Series.sum() returns, as an exact fraction in
\* lowest terms.  Division by zero does not raise on numpy scalars: it yields
\* inf (v > 0) or nan (v = 0), written here with den = 0.
Quot(v, q) ==
    IF q = 0 THEN [num |-> IF v = 0 THEN 0 ELSE 1, den |-> 0]
    ELSE LET g == GCD(v, q) IN [num |-> v \div g, den |-> q \div g]

\* Line 120, with a guard that also divides when the weight is zero.
UnitPriceDividesAtZero(v, q) == IF q >= 0 THEN Quot(v, q) ELSE Zero

\* Line 120: unit_price = val / qty if qty > 0 else 0
UnitPrice(v, q) == IF q > 0 THEN Quot(v, q) ELSE Zero

\* f"{x:.2f}": two decimals, ties to even (an exact tie needs a quotient that a
\* binary float holds exactly, which is the case for the denominators in reach).
Fmt2(x) ==
    IF x.den = 0 THEN (IF x.num = 0 THEN "nan" ELSE "inf")
    ELSE LET n == 100 * x.num
             q == n \div x.den
             r == n % x.den
             c == IF 2 * r > x.den \/ (2 * r = x.den /\ q % 2 = 1) THEN q + 1 ELSE q
             f == c % 100
         IN ToString(c \div 100) \o "." \o (IF f < 10 THEN "0" ELSE "") \o ToString(f)

RECURSIVE SumCol(_, _)
\* df[col].sum()
SumCol(rows, col) ==
    IF rows = <<>> THEN 0 ELSE rows[1][col] + SumCol(Tail(rows), col)

Row == [primaryValue : 0..MaxVal, netWgt : 0..MaxVal]

\* What comtradeapicall.getFinalData can hand back: an exception (network, auth),
\* None, or a DataFrame, possibly without rows.
ComtradeRaises == [kind |-> "raise"]
ComtradeNone == [kind |-> "none"]
Frame(rows) == [kind |-> "frame", rows |-> rows]
\* Tables of no, one and two rows (the API returns one row per partner).
Tables == {<<>>} \cup {<<r>> : r \in Row} \cup {<<r1, r2>> : r1 \in Row, r2 \in Row}
ComtradeResponses == {ComtradeRaises, ComtradeNone} \cup {Frame(rows) : rows \in Tables}
FewComtradeResponses ==
    {ComtradeRaises, ComtradeNone, Frame(<<>>),
     Frame(<<[primaryValue |-> 2, netWgt |-> 1]>>)}
OneComtradeResponse == {Frame(<<[primaryValue |-> 2, netWgt |-> 1]>>)}

\* Line 117: df is not None and not df.empty
HasData(d) == d.kind = "frame" /\ d.rows # <<>>

StatsUnavailable == "Direct Data Unavailable. Used Mirror Data logic."
StatsFailed == "Data fetch failed."
StatsText(v, p) ==
    "Total Import: $" \o ToString(v) \o ". Unit Price: $" \o Fmt2(p) \o "/kg."

\* Lines 108-135 with an empty result that leaves session_state['market_stats'] at None.
MarketStatsDropsEmpty(d) ==
    IF d.kind = "raise" THEN StatsFailed
    ELSE IF HasData(d)
         THEN StatsText(SumCol(d.rows, "primaryValue"),
                        UnitPrice(SumCol(d.rows, "primaryValue"), SumCol(d.rows, "netWgt")))
         ELSE None

\* Lines 108-135: the value Phase 1 stores in session_state['market_stats'].
MarketStats(d) ==
    IF d.kind = "raise" THEN StatsFailed
    ELSE IF HasData(d)
         THEN StatsText(SumCol(d.rows, "primaryValue"),
                        UnitPrice(SumCol(d.rows, "primaryValue"), SumCol(d.rows, "netWgt")))
         ELSE StatsUnavailable

Msg(kind, text) == [kind |-> kind, text |-> text]

\* Lines 122, 130, 134: what Phase 1 shows.
Phase1Shown(d) ==
    IF d.kind = "raise" THEN Msg("error", "Comtrade API Error")
    ELSE IF HasData(d) THEN Msg("success", t.success_data)
    ELSE Msg("warning", t.warn_mirror)

ComtradeCall ==
    [api |-> "comtrade", period |-> "2023", reporterCode |-> target_country,
     cmdCode |-> hs_code, flowCode |-> "M"]

----------------------------------------------------------------------------
(* Phase 2: Buyer Finder (lines 138-176). *)

\* A displayLink is written as its dot-separated labels.
RECURSIVE StripWww(_)
\* Line 151: item['displayLink'].replace("www.", ""): every "www." goes, so every
\* label "www" that another label follows.
StripWww(link) ==
    IF Len(link) <= 1 THEN link
    ELSE IF link[1] = "www" THEN StripWww(Tail(link))
    ELSE <<link[1]>> \o StripWww(Tail(link))

\* The i-th item of the search engine's ranking; odd ranks carry a "www." host.
Item(i) ==
    [title       |-> "Importer " \o ToString(MaxItems + 1 - i),
     displayLink |-> (IF i % 2 = 1 THEN <<"www">> ELSE <<>>)
                     \o <<"importer" \o ToString(MaxItems + 1 - i), "de">>]
Ranking(n) == [i \in 1..n |-> Item(i)]

\* What service.cse().list(...).execute() can hand back: an exception, a body
\* without 'items' (the API omits the key when nothing matches), or a body with
\* the items the service chose to return.
SearchRaises == [kind |-> "raise"]
SearchNoItemsKey == [kind |-> "ok", json |-> [searchInformation |-> "0 results"]]
SearchItems(items) == [kind |-> "ok", json |-> [items |-> items]]
SearchResponses ==
    {SearchRaises, SearchNoItemsKey} \cup {SearchItems(Ranking(n)) : n \in 0..MaxItems}
FewSearchResponses ==
    {SearchRaises, SearchNoItemsKey, SearchItems(<<>>), SearchItems(Ranking(1))}

\* Line 150: res.get('items', [])
Items(r) == IF "items" \in DOMAIN r.json THEN r.json.items ELSE <<>>

\* Lines 150-153: found_domains
FoundDomains(items) ==
    [i \in 1..Len(items) |->
        [Company |-> items[i].title, Domain |-> StripWww(items[i].displayLink)]]

\* Lines 150-154: temp_buyers
TempBuyers(items) == [i \in 1..Len(items) |-> items[i].title]

SearchCall ==
    [api |-> "google",
     q   |-> "top " \o product_name \o " importers distributors " \o country_name
             \o " -site:pinterest.*",
     cx  |-> GOOGLE_CX, num |-> NumRequested]

HunterCall(domain) == [api |-> "hunter", domain |-> domain, limit |-> 1]

NotPublic == "Not Public"
Address == "sales@importer.de"

\* What requests.get(h_url).json() can hand back: an exception (connection,
\* body that is no JSON), or a parsed body.
HunterRaises == [kind |-> "raise"]
HunterBody(json) == [kind |-> "ok", json |-> json]
HunterFound == HunterBody([data |-> [emails |-> <<[value |-> Address]>>]])
HunterNoDataKey == HunterBody([errors |-> "too many requests"])
HunterNoEmailsKey == HunterBody([data |-> [domain |-> "importer.de"]])
HunterNoEmails == HunterBody([data |-> [emails |-> <<>>]])
HunterNoValueKey == HunterBody([data |-> [emails |-> <<[type |-> "generic"]>>]])
HunterEmptyValue == HunterBody([data |-> [emails |-> <<[value |-> ""]>>]])
HunterNullValue == HunterBody([data |-> [emails |-> <<[value |-> None]>>]])
HunterResponses ==
    {HunterRaises, HunterFound, HunterNoDataKey, HunterNoEmailsKey, HunterNoEmails,
     HunterNoValueKey, HunterEmptyValue, HunterNullValue}
FewHunterResponses == {HunterRaises, HunterFound}

\* The statements of lines 164-166 run to the assignment of line 166.
Assigns(h) ==
    /\ h.kind = "ok"
    /\ "data" \in DOMAIN h.json
    /\ "emails" \in DOMAIN h.json.data
    /\ h.json.data.emails # <<>>
    /\ "value" \in DOMAIN h.json.data.emails[1]

\* Lines 161-168 with the default of line 161 left empty.
EmailDefaultEmpty(h) == IF Assigns(h) THEN h.json.data.emails[1].value ELSE ""

\* Lines 161-168: the email of one company.  Every exception of the try block
\* (the request, .json(), a missing key) is swallowed by `except: pass` and
\* leaves the default of line 161.
Email(h) == IF Assigns(h) THEN h.json.data.emails[1].value ELSE NotPublic

\* Line 169
Lead(company, h) ==
    [Company |-> company.Company, Website |-> company.Domain, Email |-> Email(h)]

RECURSIVE Join(_, _)
\* sep.join(list)
Join(sep, list) ==
    IF list = <<>> THEN ""
    ELSE IF Len(list) = 1 THEN list[1]
    ELSE list[1] \o sep \o Join(sep, Tail(list))

----------------------------------------------------------------------------
(* Phase 3: Strategic AI Report (lines 178-219). *)

\* What model.generate_content(prompt) can hand back.
GeminiRaises == [kind |-> "raise"]
GeminiText == [kind |-> "ok", text |-> "1. Verdict: Go"]
GeminiResponses == {GeminiRaises, GeminiText}

\* Lines 195-211: the prompt, by the values its template is filled with.
Prompt ==
    [language    |-> t.ai_instruction,
     product     |-> product_name,
     country     |-> country_name,
     data        |-> market_stats,
     buyers_str  |-> Join(", ", buyers_list)]

GeminiCall == [api |-> "gemini", model |-> "gemini-1.5-flash", prompt |-> Prompt]

\* Line 185 without the check of the stored market data.
ReportSkipsDataCheck == TRUE

\* Line 185: not `not st.session_state['market_stats']`
ReportHasData == Truthy(market_stats)

----------------------------------------------------------------------------
(* The script. *)

\* Line 101 with the Hunter key left out of the test.
AllKeysButHunter ==
    GEMINI_KEY # "" /\ COMTRADE_KEY # "" /\ GOOGLE_KEY # "" /\ GOOGLE_CX # ""

\* Line 101: GEMINI_KEY and COMTRADE_KEY and GOOGLE_KEY and GOOGLE_CX and HUNTER_KEY
AllKeysPresent ==
    GEMINI_KEY # "" /\ COMTRADE_KEY # "" /\ GOOGLE_KEY # "" /\ GOOGLE_CX # ""
    /\ HUNTER_KEY # ""

KeyValues == {"", "key"}

\* Every rerun starts with no local assigned, nothing called and nothing shown.
ResetLocals ==
    /\ df' = Unset /\ val' = Unbound /\ qty' = Unbound /\ unit_price' = Unbound
    /\ res' = Unset /\ found_domains' = <<>> /\ final_data' = <<>> /\ h_res' = Unset

\* A rerun in which neither button is pressed: sections 5 and 6 are skipped.
RerunIdle ==
    /\ pc = "idle"
    /\ run_btn' = FALSE /\ report_btn' = FALSE
    /\ calls' = <<>> /\ shown' = <<>>
    /\ ResetLocals
    /\ pc' = "idle"
    /\ UNCHANGED session_state

EditGeminiKey(v) ==
    /\ v # GEMINI_KEY /\ GEMINI_KEY' = v
    /\ UNCHANGED <<COMTRADE_KEY, GOOGLE_KEY, GOOGLE_CX, HUNTER_KEY, inputs>>
    /\ RerunIdle

EditComtradeKey(v) ==
    /\ v # COMTRADE_KEY /\ COMTRADE_KEY' = v
    /\ UNCHANGED <<GEMINI_KEY, GOOGLE_KEY, GOOGLE_CX, HUNTER_KEY, inputs>>
    /\ RerunIdle

EditGoogleKey(v) ==
    /\ v # GOOGLE_KEY /\ GOOGLE_KEY' = v
    /\ UNCHANGED <<GEMINI_KEY, COMTRADE_KEY, GOOGLE_CX, HUNTER_KEY, inputs>>
    /\ RerunIdle

EditGoogleCx(v) ==
    /\ v # GOOGLE_CX /\ GOOGLE_CX' = v
    /\ UNCHANGED <<GEMINI_KEY, COMTRADE_KEY, GOOGLE_KEY, HUNTER_KEY, inputs>>
    /\ RerunIdle

EditHunterKey(v) ==
    /\ v # HUNTER_KEY /\ HUNTER_KEY' = v
    /\ UNCHANGED <<GEMINI_KEY, COMTRADE_KEY, GOOGLE_KEY, GOOGLE_CX, inputs>>
    /\ RerunIdle

EditHsCode(v) ==
    /\ v # hs_code /\ hs_code' = v
    /\ UNCHANGED <<keys, target_country, country_name>>
    /\ RerunIdle

EditTargetCountry(v) ==
    /\ v # target_country /\ target_country' = v
    /\ UNCHANGED <<keys, hs_code, country_name>>
    /\ RerunIdle

EditCountryName(v) ==
    /\ v # country_name /\ country_name' = v
    /\ UNCHANGED <<keys, hs_code, target_country>>
    /\ RerunIdle

\* Lines 104-157 and 171-176 for a Comtrade response c and a search response s:
\* Phase 1, then Phase 2 up to the Hunter loop.
Engine(c, s) ==
    /\ df' = c
    /\ val' = IF HasData(c) THEN SumCol(c.rows, "primaryValue") ELSE Unbound
    /\ qty' = IF HasData(c) THEN SumCol(c.rows, "netWgt") ELSE Unbound
    /\ unit_price' = IF HasData(c)
                     THEN UnitPrice(SumCol(c.rows, "primaryValue"), SumCol(c.rows, "netWgt"))
                     ELSE Unbound
    /\ market_stats' = MarketStats(c)
    /\ res' = s
    /\ calls' = <<ComtradeCall, SearchCall>>
    /\ final_data' = <<>> /\ h_res' = Unset
    /\ IF s.kind = "raise"
       THEN /\ found_domains' = <<>>
            /\ UNCHANGED buyers_list
            /\ shown' = <<Phase1Shown(c), Msg("error", "Search Error")>>
            /\ pc' = "idle"
       ELSE /\ found_domains' = FoundDomains(Items(s))
            /\ buyers_list' = TempBuyers(Items(s))
            /\ IF Items(s) = <<>>
               THEN shown' = <<Phase1Shown(c), Msg("warning", "No buyers found.")>>
                    /\ pc' = "idle"
               ELSE shown' = <<Phase1Shown(c)>> /\ pc' = "hunter"

\* Button 1 (lines 97-176), for the responses the two services may give.
ClickSearch(comtrade, search) ==
    /\ pc = "idle"
    /\ run_btn' = TRUE /\ report_btn' = FALSE
    /\ UNCHANGED <<keys, inputs>>
    /\ IF ~AllKeysPresent
       THEN /\ shown' = <<Msg("error", t.error_api)>>
            /\ calls' = <<>>
            /\ ResetLocals
            /\ pc' = "idle"
            /\ UNCHANGED session_state
       ELSE \E c \in comtrade, s \in search : Engine(c, s)

\* One iteration of the loop of lines 160-169, and lines 171-172 after the last.
HunterReturns(hunter) ==
    /\ pc = "hunter"
    /\ \E h \in hunter :
          LET company == found_domains[Len(final_data) + 1]
              rows    == Append(final_data, Lead(company, h))
          IN /\ h_res' = h
             /\ calls' = Append(calls, HunterCall(company.Domain))
             /\ final_data' = rows
             /\ IF Len(rows) = Len(found_domains)
                THEN shown' = Append(shown, [kind |-> "dataframe", data |-> rows])
                     /\ pc' = "idle"
                ELSE UNCHANGED shown /\ pc' = "hunter"
    /\ UNCHANGED <<keys, inputs, session_state, run_btn, report_btn,
                   df, val, qty, unit_price, res, found_domains>>

\* Button 2 (lines 183-219), for the responses the language model may give.
ClickReport(gemini) ==
    /\ pc = "idle"
    /\ run_btn' = FALSE /\ report_btn' = TRUE
    /\ ResetLocals
    /\ pc' = "idle"
    /\ UNCHANGED <<keys, inputs, session_state>>
    /\ IF ~ReportHasData
       THEN /\ shown' = <<Msg("error", "Please click 'SEARCH' (Phase 1 & 2) first to gather data!")>>
            /\ calls' = <<>>
       ELSE IF GEMINI_KEY = ""
       THEN /\ shown' = <<Msg("error", "Please enter your Gemini API Key in the sidebar.")>>
            /\ calls' = <<>>
       ELSE \E g \in gemini :
               /\ calls' = <<GeminiCall>>
               /\ shown' = IF g.kind = "raise"
                           THEN <<Msg("error", "AI Error")>>
                           ELSE <<Msg("markdown", g.text)>>

----------------------------------------------------------------------------
(* Specifications. *)

\* The state of a fresh session after its first run of the script (lines 64-94).
Init ==
    /\ GEMINI_KEY = "" /\ COMTRADE_KEY = "" /\ GOOGLE_KEY = "" /\ GOOGLE_CX = ""
    /\ HUNTER_KEY = ""
    /\ hs_code = DefaultHs /\ target_country = DefaultCountry
    /\ country_name = DefaultCountryName
    /\ market_stats = None /\ buyers_list = <<>>
    /\ run_btn = FALSE /\ report_btn = FALSE /\ pc = "idle"
    /\ calls = <<>> /\ shown = <<>>
    /\ df = Unset /\ val = Unbound /\ qty = Unbound /\ unit_price = Unbound
    /\ res = Unset /\ found_domains = <<>> /\ final_data = <<>> /\ h_res = Unset

\* A session: the user edits keys and inputs and presses either button.
Next ==
    \/ \E v \in KeyValues : EditGeminiKey(v)
    \/ \E v \in KeyValues : EditComtradeKey(v)
    \/ \E v \in KeyValues : EditGoogleKey(v)
    \/ \E v \in KeyValues : EditGoogleCx(v)
    \/ \E v \in KeyValues : EditHunterKey(v)
    \/ \E v \in {"", DefaultHs} : EditHsCode(v)
    \/ \E v \in {"", DefaultCountry} : EditTargetCountry(v)
    \/ \E v \in {"", DefaultCountryName} : EditCountryName(v)
    \/ ClickSearch(FewComtradeResponses, FewSearchResponses)
    \/ HunterReturns(FewHunterResponses)
    \/ ClickReport(GeminiResponses)

Spec == Init /\ [][Next]_vars

\* The session once the user has typed the five keys.
InitKeyed ==
    /\ GEMINI_KEY = "key" /\ COMTRADE_KEY = "key" /\ GOOGLE_KEY = "key"
    /\ GOOGLE_CX = "key" /\ HUNTER_KEY = "key"
    /\ hs_code = DefaultHs /\ target_country = DefaultCountry
    /\ country_name = DefaultCountryName
    /\ market_stats = None /\ buyers_list = <<>>
    /\ run_btn = FALSE /\ report_btn = FALSE /\ pc = "idle"
    /\ calls = <<>> /\ shown = <<>>
    /\ df = Unset /\ val = Unbound /\ qty = Unbound /\ unit_price = Unbound
    /\ res = Unset /\ found_domains = <<>> /\ final_data = <<>> /\ h_res = Unset

\* Runs with every trade-statistics table within the bounds; the search finds nothing.
NextMarket ==
    \/ ClickSearch(ComtradeResponses, {SearchNoItemsKey})
    \/ ClickReport(GeminiResponses)

SpecMarket == InitKeyed /\ [][NextMarket]_vars

\* Runs with every search response and every email lookup response within the bounds.
NextBuyers ==
    \/ ClickSearch(OneComtradeResponse, SearchResponses)
    \/ HunterReturns(HunterResponses)
    \/ ClickReport(GeminiResponses)

SpecBuyers == InitKeyed /\ [][NextBuyers]_vars

----------------------------------------------------------------------------
(* Properties. *)

SomeKeyEmpty ==
    GEMINI_KEY = "" \/ COMTRADE_KEY = "" \/ GOOGLE_KEY = "" \/ GOOGLE_CX = ""
    \/ HUNTER_KEY = ""

CallsTo(api) == {i \in 1..Len(calls) : calls[i].api = api}

Placeholders == {StatsUnavailable, StatsFailed}

\* What a SEARCH rerun with a key missing has called and shown.
C1_BlockedRunState ==
    (run_btn /\ SomeKeyEmpty) =>
        /\ calls = <<>>
        /\ shown = <<Msg("error", t.error_api)>>
        /\ pc = "idle"
\* What the step into such a rerun does to the session state.
C1_BlockedRunStep ==
    (run_btn' /\ SomeKeyEmpty') =>
        /\ market_stats' = market_stats
        /\ buyers_list' = buyers_list
\* C1: a SEARCH rerun with at least one of the five keys empty issues no external
\* call at all, shows exactly the one aggregate error message, and leaves
\* session_state['market_stats'] and session_state['buyers_list'] as they were.
C1_MissingKeyBlocksRun == []C1_BlockedRunState /\ [][C1_BlockedRunStep]_vars

\* A blocked SEARCH with only the email-lookup key missing, after an earlier run
\* had stored market stats and leads.
C1_Witness ==
    /\ run_btn /\ HUNTER_KEY = ""
    /\ GEMINI_KEY # "" /\ COMTRADE_KEY # "" /\ GOOGLE_KEY # "" /\ GOOGLE_CX # ""
    /\ market_stats # None /\ buyers_list # <<>>
    /\ shown = <<Msg("error", t.error_api)>>

\* C2: whenever Phase 1 has a non-empty table, a summed net weight of 0 gives
\* unit_price 0, a summed net weight above 0 gives the exact quotient
\* val / qty, the price is a finite number and Phase 1 did not end in its
\* exception handler.
C2_UnitPrice ==
    HasData(df) =>
        /\ val >= 0 /\ qty >= 0
        /\ unit_price.den > 0
        /\ qty = 0 => unit_price = Zero
        /\ qty > 0 => unit_price.num * qty = val * unit_price.den
        /\ market_stats # StatsFailed

\* A table whose weights sum to 0 while its values do not.
C2_Witness ==
    /\ HasData(df) /\ Len(df.rows) = 2
    /\ qty = 0 /\ val > 0 /\ unit_price = Zero
    /\ market_stats = "Total Import: $" \o ToString(val) \o ". Unit Price: $0.00/kg."

\* The trade API raised, returned None or returned a table without rows.
C3_EmptyOrFailed == df.kind \in {"raise", "none"} \/ (df.kind = "frame" /\ df.rows = <<>>)
\* C3: in a SEARCH run that passed the key check, an empty trade result stores
\* the "unavailable" text and an exception stores the "failed" text, the web
\* search call of Phase 2 is issued in the same run, and a later Generate-Report
\* with a language-model key sends the model a prompt that carries that text.
C3_PlaceholderAndContinue ==
    /\ (run_btn /\ C3_EmptyOrFailed) =>
          /\ market_stats = (IF df.kind = "raise" THEN StatsFailed ELSE StatsUnavailable)
          /\ CallsTo("google") # {}
    /\ (report_btn /\ market_stats \in Placeholders /\ GEMINI_KEY # "") =>
          /\ CallsTo("gemini") # {}
          /\ \A i \in CallsTo("gemini") : calls[i].prompt.data = market_stats

\* A report generated from the "unavailable" text, with leads from the same run.
C3_Witness ==
    /\ report_btn /\ market_stats = StatsUnavailable /\ buyers_list # <<>>
    /\ CallsTo("gemini") # {}

\* C4: the lead table and the stored leads list never hold more than five entries.
C4_AtMostFiveLeads ==
    /\ Len(final_data) <= NumRequested
    /\ Len(buyers_list) <= NumRequested
    /\ \A i \in 1..Len(shown) :
          shown[i].kind = "dataframe" => Len(shown[i].data) <= NumRequested

\* The try block of lines 162-166 did not get to a value: the request or
\* .json() raised, or the body lacks 'data', 'emails' or the record's 'value'.
LookupFailed(h) ==
    \/ h.kind = "raise"
    \/ /\ h.kind = "ok"
       /\ \/ "data" \notin DOMAIN h.json
          \/ "emails" \notin DOMAIN h.json.data
          \/ /\ h.json.data.emails # <<>>
             /\ "value" \notin DOMAIN h.json.data.emails[1]

ResponseItems == IF "items" \in DOMAIN res.json THEN res.json.items ELSE <<>>

\* The leads, the lookups issued and the table shown, against the search response.
C5_LeadsState ==
    (run_btn /\ res.kind = "ok") =>
        /\ Len(final_data) <= Len(ResponseItems)
        /\ \A i \in 1..Len(final_data) : final_data[i].Company = ResponseItems[i].title
        /\ Len(calls) = 2 + Len(final_data)
        /\ \A i \in 1..Len(final_data) :
              /\ calls[2 + i].api = "hunter"
              /\ calls[2 + i].domain = final_data[i].Website
        /\ (final_data # <<>> /\ LookupFailed(h_res)) =>
              final_data[Len(final_data)].Email = NotPublic
        /\ pc = "idle" =>
              /\ Len(final_data) = Len(ResponseItems)
              /\ ResponseItems # <<>> =>
                    shown[Len(shown)] = [kind |-> "dataframe", data |-> final_data]
\* A step of the lookup loop adds one lead and keeps the earlier ones.
C5_LeadsStep ==
    pc = "hunter" =>
        /\ Len(final_data') = Len(final_data) + 1
        /\ SubSeq(final_data', 1, Len(final_data)) = final_data
\* C5: in a run whose search succeeded, the leads are the search items in the
\* order of the response; one lookup is issued per lead whatever the earlier
\* lookups did; a failed lookup leaves the sentinel on its lead; a loop step
\* always adds the next lead and keeps the ones before it; and when the run is
\* over there are as many leads as items, shown in one table.
C5_FailedLookupAbsorbed == []C5_LeadsState /\ [][C5_LeadsStep]_vars

\* The second of several lookups has just failed after the first found an address.
C5_Witness ==
    /\ pc = "hunter" /\ Len(final_data) = 2 /\ Len(found_domains) > 2
    /\ LookupFailed(h_res)
    /\ final_data[1].Email = Address /\ final_data[2].Email = NotPublic

\* C6: no lead carries an empty or null email.
C6_EmailNeverEmpty ==
    \A i \in 1..Len(final_data) : final_data[i].Email \notin {"", None}

\* C7: after a SEARCH run whose web search call failed, the stored leads list is empty.
C7_NoLeadsAfterFailedSearch ==
    (run_btn /\ res.kind = "raise") => buyers_list = <<>>

\* C8: a prompt built from an empty leads list names the leads "none found".
C8_EmptyLeadsRendered ==
    \A i \in CallsTo("gemini") :
        buyers_list = <<>> => calls[i].prompt.buyers_str = "none found"

\* C9: the trade-statistics call and the web search call are issued only when
\* hs_code, target_country and country_name are all non-empty.
C9_FieldsNonEmpty ==
    (CallsTo("comtrade") # {} \/ CallsTo("google") # {}) =>
        hs_code # "" /\ target_country # "" /\ country_name # ""

\* When the model is called, and what a report without stored stats does.
C10_ReportState ==
    /\ CallsTo("gemini") # {} =>
          report_btn /\ GEMINI_KEY # "" /\ market_stats # None /\ market_stats # ""
    /\ Cardinality(CallsTo("gemini")) <= 1
    /\ (report_btn /\ market_stats = None) =>
          /\ calls = <<>>
          /\ shown = <<Msg("error", "Please click 'SEARCH' (Phase 1 & 2) first to gather data!")>>
\* The only step that changes the stored stats.
C10_StatsStep ==
    market_stats' # market_stats =>
        /\ run_btn' /\ ~SomeKeyEmpty'
        /\ CallsTo("comtrade")' # {}
\* C10: the session starts without market stats; the stats change only in a
\* SEARCH rerun that passed the key check and called the trade API; a model call
\* is made only by a Generate-Report rerun with a non-empty language-model key
\* and stored stats; a report without stored stats makes no call and shows the
\* "click SEARCH first" error; and no rerun calls the model twice.
C10_ModelCallGated ==
    market_stats = None /\ []C10_ReportState /\ [][C10_StatsStep]_vars

\* A report whose single model call failed.
C10_Witness ==
    /\ report_btn /\ Cardinality(CallsTo("gemini")) = 1
    /\ shown = <<Msg("error", "AI Error")>>

====
